---- MODULE Spec2Model ----
(***************************************************************************)
(* State-machine model of src/oanda_trading.py: the stream loop that turns *)
(* PRICE ticks into OHLC bars (update_ohlc / process_forex_data /          *)
(* reset_ohlc), recomputes the RSI over the bar series and lets            *)
(* trade_based_on_rsi dispatch at most one market order per window close.  *)
(*                                                                         *)
(* Representation.                                                         *)
(*   - wall clock `now`: integer count of 1/Res seconds since a Monday     *)
(*     00:00:00 local time (no DST change inside the modelled interval);   *)
(*   - a price (Python float): integer count of 0.00001, with the three    *)
(*     non-numbers the code handles as distinguished integers NegInf,      *)
(*     PosInf and NaN; Python's None is the distinguished integer None;    *)
(*   - start_time (the '%Y-%m-%d %H:%M:%S' string): whole seconds.         *)
(***************************************************************************)
EXTENDS Integers, Sequences, FiniteSets, TLC

VARIABLES
    pc,         \* position of stream_forex_data: "start", "streaming", "done"
    now,        \* wall clock, in 1/Res seconds
    ohlc_data,  \* module global ohlc_data: instrument -> accumulator
    tick_count, \* module global tick_count: instrument -> ticks
    ohlc_df,    \* module global ohlc_df: the bar series (rows in order)
    orders,     \* every POST .../orders issued, in order (request + window)
    accepted,   \* number of calls of update_ohlc that completed
    winTicks,   \* prices passed to update_ohlc since the accumulator was (re)set
    ev,         \* what the last handled feed line did (record, see NoEvent)
    msgs        \* feed lines handled so far

vars == <<pc, now, ohlc_data, tick_count, ohlc_df, orders, accepted, winTicks, ev, msgs>>

----------------------------------------------------------------------------
(* Bounds of the model *)

\* clock resolution: units per second
Res == 2
\* feed lines handled in one run
MaxMsgs == 2

(* Program constants *)

\* process_forex_data(..., timeframe=60)
Timeframe == 60
\* ta.rsi(..., length=14)
RsiLength == 14
\* if latest_rsi < 30
RsiBuyBelow == 30
\* elif latest_rsi > 70
RsiSellAbove == 70
\* calculate_pos(..., leverage=15)
Leverage == 15
\* trade_based_on_rsi(..., sl=25, tp=25)
SlPips == 25
TpPips == 25
\* should_trade: dt_time(6, 0), dt_time(22, 0), 0 <= current_day <= 4
StartHour == 6
EndHour == 22
LastTradingDay == 4

----------------------------------------------------------------------------
(* Python values *)

\* None
None == -2000000001
\* float('-inf'), float('inf'), float('nan')
NegInf == -2000000000
PosInf == 2000000000
NaN == 2000000002

IsNumber(x) == x # None /\ x # NaN

\* a < b on floats: every comparison with nan is False
FloatLt(a, b) == a # NaN /\ b # NaN /\ a < b

\* max(a, b) and min(a, b) of Python: the first argument is kept unless the
\* second compares strictly greater (smaller)
PyMax(a, b) == IF FloatLt(a, b) THEN b ELSE a
PyMin(a, b) == IF FloatLt(b, a) THEN b ELSE a

\* time.strftime('%Y-%m-%d %H:%M:%S', time.localtime(t)): the sub-second part
\* of t is dropped
Strftime(t) == t \div Res
\* time.mktime(time.strptime(s, '%Y-%m-%d %H:%M:%S')): whole seconds, in clock units
Mktime(s) == s * Res

----------------------------------------------------------------------------
(* Exact arithmetic for the RSI: naturals beyond 32 bits as little-endian  *)
(* sequences of digits in base 10^4, without leading zero digits (<<>> is  *)
(* zero).                                                                  *)

BigBase == 10 ^ 4

RECURSIVE BigScaleC(_, _, _)
BigScaleC(a, k, carry) ==
    IF a = <<>>
    THEN IF carry = 0 THEN <<>>
         ELSE <<carry % BigBase>> \o BigScaleC(<<>>, k, carry \div BigBase)
    ELSE LET v == Head(a) * k + carry
         IN  <<v % BigBase>> \o BigScaleC(Tail(a), k, v \div BigBase)

\* a * k, for a natural k
BigScale(a, k) == IF k = 0 THEN <<>> ELSE BigScaleC(a, k, 0)

RECURSIVE BigAddC(_, _, _)
BigAddC(a, b, carry) ==
    IF a = <<>> /\ b = <<>>
    THEN IF carry = 0 THEN <<>> ELSE <<carry>>
    ELSE LET x == IF a = <<>> THEN 0 ELSE Head(a)
             y == IF b = <<>> THEN 0 ELSE Head(b)
             v == x + y + carry
         IN  <<v % BigBase>>
             \o BigAddC(IF a = <<>> THEN a ELSE Tail(a),
                        IF b = <<>> THEN b ELSE Tail(b), v \div BigBase)

BigAdd(a, b) == BigAddC(a, b, 0)

RECURSIVE BigLessFrom(_, _, _)
BigLessFrom(a, b, i) ==
    IF i = 0 THEN FALSE
    ELSE IF a[i] # b[i] THEN a[i] < b[i]
    ELSE BigLessFrom(a, b, i - 1)

\* a < b
BigLess(a, b) ==
    IF Len(a) # Len(b) THEN Len(a) < Len(b) ELSE BigLessFrom(a, b, Len(a))

----------------------------------------------------------------------------
(* Indicator: pandas_ta.rsi(close, length=14) as calculate_rsi calls it.   *)
(* The library returns None for a series shorter than `length`; otherwise  *)
(*   gain_i = max(c_i - c_(i-1), 0), loss_i = max(c_(i-1) - c_i, 0),       *)
(*   avg = ewm(alpha = 1/length, min_periods = length).mean() of each,     *)
(*   rsi = 100 * avgGain / (avgGain + avgLoss).                            *)
(* The two averages share their weights ((length-1)/length)^(n-i), so the  *)
(* last RSI is 100 * up / (up + down) with                                 *)
(*   up   = SUM (length-1)^(n-i) * length^(i-2) * gain_i,                  *)
(*   down = SUM (length-1)^(n-i) * length^(i-2) * loss_i,                  *)
(* the sums over the differences that are numbers; it is nan while fewer   *)
(* than `length` differences are numbers, and when up + down = 0.          *)

\* c_i - c_(i-1); nan when either close is nan
CloseDiff(closes, i) ==
    IF closes[i] = NaN \/ closes[i - 1] = NaN THEN NaN
    ELSE closes[i] - closes[i - 1]

RECURSIVE RsiSums(_, _)
RsiSums(closes, i) ==
    IF i < 2
    THEN [cnt |-> 0, up |-> <<>>, down |-> <<>>, w |-> <<1>>]
    ELSE LET r == RsiSums(closes, i - 1)
             d == CloseDiff(closes, i)
             gain == IF d # NaN /\ d > 0 THEN d ELSE 0
             loss == IF d # NaN /\ d < 0 THEN 0 - d ELSE 0
         IN  [cnt  |-> r.cnt + (IF d = NaN THEN 0 ELSE 1),
              up   |-> BigAdd(BigScale(r.up, RsiLength - 1), BigScale(r.w, gain)),
              down |-> BigAdd(BigScale(r.down, RsiLength - 1), BigScale(r.w, loss)),
              w    |-> BigScale(r.w, RsiLength)]

RsiNone == [kind |-> "None", up |-> <<>>, total |-> <<>>]
RsiNaN == [kind |-> "nan", up |-> <<>>, total |-> <<>>]

\* variant: the averages are taken as defined one difference too early
RsiOneEarly(closes) ==
    IF Len(closes) < RsiLength THEN RsiNone
    ELSE LET s == RsiSums(closes, Len(closes))
         IN  IF s.cnt < RsiLength - 1 \/ (s.up = <<>> /\ s.down = <<>>) THEN RsiNaN
             ELSE [kind |-> "num", up |-> s.up, total |-> BigAdd(s.up, s.down)]

\* ohlc_df['RSI'].iloc[-1] after calculate_rsi, from the column of closes
Rsi(closes) ==
    IF Len(closes) < RsiLength THEN RsiNone
    ELSE LET s == RsiSums(closes, Len(closes))
         IN  IF s.cnt < RsiLength \/ (s.up = <<>> /\ s.down = <<>>) THEN RsiNaN
             ELSE [kind |-> "num", up |-> s.up, total |-> BigAdd(s.up, s.down)]

\* latest_rsi < k, latest_rsi > k and latest_rsi == k for an integer k
\* (False for nan)
RsiLt(r, k) == r.kind = "num" /\ BigLess(BigScale(r.up, 100), BigScale(r.total, k))
RsiGt(r, k) == r.kind = "num" /\ BigLess(BigScale(r.total, k), BigScale(r.up, 100))
RsiEq(r, k) == r.kind = "num" /\ BigScale(r.up, 100) = BigScale(r.total, k)

----------------------------------------------------------------------------
(* Bar aggregation *)

\* initialize_ohlc(instrument) called at wall-clock time t: the new value of
\* ohlc_data[instrument]
InitializeOhlc(t) ==
    [o |-> None, h |-> NegInf, l |-> PosInf, c |-> None, volume |-> 0,
     start_time |-> Strftime(t)]

\* reset_ohlc(instrument) called at wall-clock time t
ResetOhlc(t) ==
    [o |-> None, h |-> NegInf, l |-> PosInf, c |-> None, volume |-> 0,
     start_time |-> Strftime(t)]

\* update_ohlc(instrument, price) on the accumulator acc
UpdateOhlc(acc, price) ==
    [acc EXCEPT !.o = IF acc.o = None THEN price ELSE @,
                !.h = PyMax(@, price),
                !.l = PyMin(@, price),
                !.c = price,
                !.volume = @ + 1]

\* if current_time - time.mktime(t_struct) >= timeframe
WindowElapsed(acc, t) == t - Mktime(acc.start_time) >= Timeframe * Res

\* new_row: the bar taken from the accumulator
NewRow(acc) ==
    [start_time |-> acc.start_time, o |-> acc.o, h |-> acc.h, l |-> acc.l,
     c |-> acc.c, volume |-> acc.volume]

\* new_row.isna().all(axis=1).any(): every column of the row is None or nan
\* (start_time is a string and volume an int: neither ever is)
IsNa(x) == x = None \/ x = NaN
RowAllNa(row) == \A col \in DOMAIN row : IsNa(row[col])

\* pd.concat([ohlc_df ..., new_row]) unless the row is all-NA
AppendRow(df, row) == IF RowAllNa(row) THEN df ELSE Append(df, row)

\* ohlc_df['c']
Closes(df) == [i \in 1..Len(df) |-> df[i].c]

----------------------------------------------------------------------------
(* Signal evaluation and order placement *)

\* int(x) of Python for the quotient a / b, b > 0: truncation toward zero
TruncDiv(a, b) == IF a >= 0 THEN a \div b ELSE 0 - ((0 - a) \div b)

\* calculate_pos: int(balance * leverage); the balance is in cents
CalculatePos(balance) == TruncDiv(balance * Leverage, 100)

NoPosition == [type |-> "none", units |-> 0]

\* variant: short positions are not looked at
RECURSIVE GetOpenPositionsLongOnly(_, _)
GetOpenPositionsLongOnly(positions, instrument) ==
    IF positions = <<>> THEN NoPosition
    ELSE LET pos == Head(positions)
         IN  IF pos.instrument = instrument
             THEN IF pos.long > 0 THEN [type |-> "buy", units |-> pos.long]
                  ELSE NoPosition
             ELSE GetOpenPositionsLongOnly(Tail(positions), instrument)

\* get_open_positions over response.json()['positions']: the first entry for
\* the instrument decides
RECURSIVE GetOpenPositions(_, _)
GetOpenPositions(positions, instrument) ==
    IF positions = <<>> THEN NoPosition
    ELSE LET pos == Head(positions)
         IN  IF pos.instrument = instrument
             THEN IF pos.long > 0 THEN [type |-> "buy", units |-> pos.long]
                  ELSE IF pos.short < 0 THEN [type |-> "sell", units |-> pos.short]
                  ELSE NoPosition
             ELSE GetOpenPositions(Tail(positions), instrument)

\* datetime.now() at clock t: weekday (0 = Monday) and time of day in clock units
Weekday(t) == (t \div (86400 * Res)) % 7
TimeOfDay(t) == t % (86400 * Res)

\* variant: the weekday is not looked at
ShouldTradeAnyDay(t) ==
    /\ StartHour * 3600 * Res <= TimeOfDay(t)
    /\ TimeOfDay(t) <= EndHour * 3600 * Res

\* should_trade() called at wall-clock time t
ShouldTrade(t) ==
    /\ 0 <= Weekday(t) /\ Weekday(t) <= LastTradingDay
    /\ StartHour * 3600 * Res <= TimeOfDay(t)
    /\ TimeOfDay(t) <= EndHour * 3600 * Res

\* variant: the thresholds themselves trigger
SignalInclusive(rsi) ==
    IF ~RsiGt(rsi, RsiBuyBelow) /\ rsi.kind = "num" THEN "buy"
    ELSE IF ~RsiLt(rsi, RsiSellAbove) /\ rsi.kind = "num" THEN "sell"
    ELSE "none"

\* the branch trade_based_on_rsi takes inside the trading hours
Signal(rsi) ==
    IF RsiLt(rsi, RsiBuyBelow) THEN "buy"
    ELSE IF RsiGt(rsi, RsiSellAbove) THEN "sell"
    ELSE "none"

\* variant: buy_order negates the units and sell_order does not
SignedUnitsSwapped(signal, position) ==
    IF signal = "buy" THEN position * (0 - 1) ELSE position

\* buy_order / sell_order: the units handed to place_order
SignedUnits(signal, position) == IF signal = "sell" THEN position * (0 - 1) ELSE position

\* pip_value, in price units of 0.00001
PipValue(instrument) == IF instrument = "USD_JPY" THEN 1000 ELSE 10

\* place_order: the order request built from the price reply `quote`
OrderRequest(instrument, units, sl, tp, quote) ==
    LET current_price == IF units > 0 THEN quote.ask ELSE quote.bid
    IN  [instrument |-> instrument,
         units |-> units,
         price |-> current_price,
         stopLoss |-> current_price - sl * PipValue(instrument),
         takeProfit |-> current_price + tp * PipValue(instrument)]

----------------------------------------------------------------------------
(* Inputs: the feed and the replies of the broker's REST endpoints *)

\* a mid price (1.10000) and the distance of the feed's two bids from it
Mid == 110000
Step == 7

\* float(data['bids'][0]['price']) of a PRICE line: two prices, and "nan"
Prices == {Mid - Step, Mid + Step, NaN}

\* the instrument stream_forex_data registers (initialize_ohlc("EUR_USD"))
Registered == "EUR_USD"

\* a line of the feed: whether line.decode('utf-8') succeeds, whether
\* json.loads succeeds, and what data holds then
Line(decodes, json, type, instrument, bids) ==
    [decodes |-> decodes, json |-> json, type |-> type, instrument |-> instrument,
     bids |-> bids]

\* a PRICE line for `instrument` with the bid `price`
PriceLine(instrument, price) == Line(TRUE, TRUE, "PRICE", instrument, <<price>>)

\* a line that is not JSON
Malformed == Line(TRUE, FALSE, "", "", <<>>)

\* one line of response.iter_lines()
Lines ==
    {PriceLine(Registered, p) : p \in Prices}
    \cup {Malformed,
          Line(FALSE, FALSE, "", "", <<>>),
          Line(TRUE, TRUE, "HEARTBEAT", "", <<>>),
          Line(TRUE, TRUE, "PRICE", Registered, <<>>),
          PriceLine("GBP_USD", Mid + Step)}

\* time between two feed lines: half a second, or a whole window
Gaps == {1, Timeframe * Res}

\* time the REST calls of one evaluation take: between the time.time() of the
\* elapsed check and the datetime.now() of should_trade (and reset_ohlc)
Delays == {1}

\* account balance in cents (100.07)
TestBalance == 10007

\* GET .../summary: a balance, a status other than 200, or requests raising
AccountReplies ==
    {[kind |-> "ok", balance |-> b] : b \in {TestBalance, 0 - TestBalance}}
    \cup {[kind |-> "http_error", balance |-> 0], [kind |-> "raise", balance |-> 0]}

Pos(i, long, short) == [instrument |-> i, long |-> long, short |-> short]

\* GET .../openPositions: a list of positions (one entry per instrument), a
\* reply without 'positions' (KeyError), or requests raising (caught: None)
PositionReplies ==
    {[kind |-> "ok", positions |-> ps] :
        ps \in {<<>>,
                <<Pos(Registered, 100, 0)>>,
                <<Pos(Registered, 0, 0)>>,
                <<Pos("GBP_USD", 100, 0)>>,
                <<Pos("GBP_USD", 100, 0), Pos(Registered, 0, 0 - 100)>>}}
    \cup {[kind |-> "keyerror", positions |-> <<>>], [kind |-> "raise", positions |-> <<>>]}

\* GET .../pricing: a quote, no price (status other than 200, or an empty list),
\* or requests raising
PriceReplies ==
    {[kind |-> "ok", bid |-> Mid - 10, ask |-> Mid + 10],
     [kind |-> "none", bid |-> 0, ask |-> 0],
     [kind |-> "raise", bid |-> 0, ask |-> 0]}

\* POST .../orders: 201, another status, or requests raising
OrderReplies == {"201", "rejected", "raise"}

\* ohlc_df.to_csv: written, or an OSError
CsvReplies == {"ok", "raise"}

\* GET of the pricing stream: 200, another status, or requests raising
StreamReplies == {"200", "error", "raise"}

----------------------------------------------------------------------------
(* Initial states: the process as it starts, and the process after n quiet  *)
(* windows of one tick each (closes given), right after the reset that      *)
(* followed the n-th bar.                                                   *)

Clock(day, h, m, sec) == (((day * 24 + h) * 60 + m) * 60 + sec) * Res

Flat(n, v) == [i \in 1..n |-> v]
Ramp(n, last, step) == [i \in 1..n |-> last - (n - i) * step]

\* closes falling (rising) by Step down (up) to Mid
Falling(n) == Ramp(n, Mid, 0 - Step)
Rising(n) == Ramp(n, Mid, Step)
\* 13 equal closes, a rise (fall) of 6, and then a bid 13 below (above) the
\* last close: gain and loss weigh 6 * 13 against 13 * 14
TurnDown == Flat(RsiLength - 1, Mid - Step + 7) \o <<Mid - Step + 13>>
TurnUp == Flat(RsiLength - 1, Mid + Step - 7) \o <<Mid + Step - 13>>

Scenarios ==
    {[t0 |-> Clock(2, 12, 0, 0), closes |-> cs] :
        cs \in {Falling(RsiLength), Rising(RsiLength), TurnDown, TurnUp,
                Flat(RsiLength, Mid + Step), Falling(RsiLength - 1)}}
    \cup {[t0 |-> Clock(4, 21, 58, 59) + 1, closes |-> Rising(RsiLength)],
          [t0 |-> Clock(4, 21, 59, 0), closes |-> Rising(RsiLength)],
          [t0 |-> Clock(5, 12, 0, 0), closes |-> Falling(RsiLength)],
          [t0 |-> Clock(0, 5, 58, 59), closes |-> Falling(RsiLength)]}

HistoryRow(sc, k) ==
    [start_time |-> Strftime(sc.t0) - (Len(sc.closes) - k + 1) * Timeframe,
     o |-> sc.closes[k], h |-> sc.closes[k], l |-> sc.closes[k], c |-> sc.closes[k],
     volume |-> 1]

\* what a handled feed line did; every field but `kind` describes a window close
NoEvent ==
    [kind |-> "none",        \* "none", "skip", "tick" (no close), "close",
                             \* "crash", "sigint" or "disconnect"
     line |-> Malformed,     \* the line that was handled
     time |-> 0,             \* the time.time() at which it was handled
     windowStart |-> 0,      \* start_time of the accumulator that was closed
     ticks |-> <<>>,         \* the prices update_ohlc took in since the last reset
     row |-> <<>>,           \* the row built from the accumulator
     rsi |-> RsiNone,        \* latest_rsi
     stage |-> "",           \* where the evaluation ended
     ordersBefore |-> 0,     \* the number of orders sent before the line
     queriesOk |-> FALSE,    \* account and position query left no exception
     positionOpen |-> FALSE, \* the position query listed an open position
     evalTime |-> 0,         \* the clock read by should_trade
     signal |-> "none",      \* "buy" / "sell": buy_order / sell_order was called
     dispatched |-> FALSE,   \* the order request was POSTed
     reply |-> "",           \* the reply to the POST
     raised |-> FALSE,       \* an exception reached process_forex_data's handler
     reset |-> FALSE]        \* reset_ohlc was called

Init ==
    /\ orders = <<>>
    /\ winTicks = <<>>
    /\ ev = NoEvent
    /\ msgs = 0
    /\ \/ /\ pc = "start"
          /\ now = Clock(0, 5, 59, 0)
          /\ ohlc_data = [i \in {} |-> 0]
          /\ tick_count = [i \in {} |-> 0]
          /\ ohlc_df = <<>>
          /\ accepted = 0
       \/ \E sc \in Scenarios :
            /\ pc = "streaming"
            /\ now = sc.t0
            /\ ohlc_data = [i \in {Registered} |-> ResetOhlc(sc.t0)]
            /\ tick_count = [i \in {Registered} |-> 0]
            /\ ohlc_df = [k \in 1..Len(sc.closes) |-> HistoryRow(sc, k)]
            /\ accepted = Len(sc.closes)

----------------------------------------------------------------------------
(* Operations *)

\* stream_forex_data up to the loop: the streaming request, then
\* initialize_ohlc("EUR_USD") on status 200; any other outcome returns
Connect ==
    /\ pc = "start"
    /\ \E reply \in StreamReplies :
         IF reply = "200"
         THEN /\ pc' = "streaming"
              /\ ohlc_data' = [i \in {Registered} |-> InitializeOhlc(now)]
              /\ tick_count' = [i \in {Registered} |-> 0]
              /\ ev' = ev
         ELSE /\ pc' = "done"
              /\ ev' = [NoEvent EXCEPT !.kind = "disconnect", !.time = now]
              /\ UNCHANGED <<ohlc_data, tick_count>>
    /\ UNCHANGED <<now, ohlc_df, orders, accepted, winTicks, msgs>>

\* the state a handled line leaves behind, the process being at p
CommitAt(p, t, data, tc, df, ords, acc, wt, e) ==
    /\ pc' = p
    /\ now' = t
    /\ ohlc_data' = data
    /\ tick_count' = tc
    /\ ohlc_df' = df
    /\ orders' = ords
    /\ accepted' = acc
    /\ winTicks' = wt
    /\ ev' = e
    /\ msgs' = msgs + 1

\* the state a handled line leaves behind when the loop goes on
Commit(t, data, tc, df, ords, acc, wt, e) ==
    /\ now' = t
    /\ ohlc_data' = data
    /\ tick_count' = tc
    /\ ohlc_df' = df
    /\ orders' = ords
    /\ accepted' = acc
    /\ winTicks' = wt
    /\ ev' = e
    /\ msgs' = msgs + 1
    /\ pc' = pc

\* a line process_forex_data leaves without touching its state: not JSON, not
\* a PRICE, no bids, or (KeyError in update_ohlc) an instrument without accumulator
Skip(line, t) ==
    Commit(t, ohlc_data, tick_count, ohlc_df, orders, accepted, winTicks,
           [NoEvent EXCEPT !.kind = "skip", !.ordersBefore = Len(orders),
                           !.line = line, !.time = t])

\* variant: a tick for an instrument without accumulator creates one
CreateAccumulator(line, t) ==
    Commit(t,
           [i \in DOMAIN ohlc_data \cup {line.instrument} |->
               IF i \in DOMAIN ohlc_data THEN ohlc_data[i]
               ELSE UpdateOhlc(InitializeOhlc(t), line.bids[1])],
           [i \in DOMAIN tick_count \cup {line.instrument} |->
               IF i \in DOMAIN tick_count THEN tick_count[i] ELSE 1],
           ohlc_df, orders, accepted, winTicks,
           [NoEvent EXCEPT !.kind = "tick", !.ordersBefore = Len(orders),
                           !.line = line, !.time = t])

\* a PRICE line for an instrument without accumulator: ohlc_data[instrument]
\* in update_ohlc raises KeyError, caught on line 101; nothing has changed
DropTick(line, t) == Skip(line, t)

\* line.decode('utf-8') raises UnicodeDecodeError outside every try block that
\* would catch it: the exception leaves stream_forex_data and ends the process
Crash(line, t) ==
    CommitAt("crashed", t, ohlc_data, tick_count, ohlc_df, orders, accepted, winTicks,
             [NoEvent EXCEPT !.kind = "crash", !.ordersBefore = Len(orders),
                             !.line = line, !.time = t])

\* whether the reply of the position query lists an open position (long or
\* short units other than 0) for the instrument
ReportsOpenPosition(pr, instrument) ==
    /\ pr.kind = "ok"
    /\ \E k \in 1..Len(pr.positions) :
         /\ pr.positions[k].instrument = instrument
         /\ (pr.positions[k].long # 0 \/ pr.positions[k].short # 0)

\* process_forex_data from line 67 on: the window of `instrument` has elapsed
\* at time t; data, tc, wt are ohlc_data, tick_count and the ticks of the window
\* after update_ohlc
CloseWindow(line, t, data, tc, wt) ==
    \E instrument \in {line.instrument} :
    \E acc \in {data[instrument]} :
    \E row \in {NewRow(acc)} :
    \E df \in {AppendRow(ohlc_df, row)} :
    \E csv \in CsvReplies :
    LET e0 == [NoEvent EXCEPT !.kind = "close", !.ordersBefore = Len(orders),
                              !.line = line, !.time = t,
                              !.windowStart = acc.start_time,
                              !.ticks = wt, !.row = row]
        \* the handler returns normally: reset_ohlc at time tr
        Returns(e, ords, tr) ==
            Commit(tr, [data EXCEPT ![instrument] = ResetOhlc(tr)],
                   [tc EXCEPT ![instrument] = 0], df, ords, accepted + 1, <<>>,
                   [e EXCEPT !.reset = TRUE])
        \* an exception leaves process_forex_data through `except Exception`
        Raises(e, ords, tr) ==
            Commit(tr, data, tc, df, ords, accepted + 1, wt, [e EXCEPT !.raised = TRUE])
    IN
    \* ohlc_df.to_csv
    IF csv = "raise" THEN Raises([e0 EXCEPT !.stage = "csv"], orders, t)
    ELSE
    \* calculate_indicators, then trade_based_on_rsi
    \E rsi \in {Rsi(Closes(df))} :
    \E e1 \in {[e0 EXCEPT !.rsi = rsi]} :
    IF Len(df) = 0 THEN Returns([e1 EXCEPT !.stage = "empty"], orders, t)
    ELSE IF rsi.kind = "None" THEN Returns([e1 EXCEPT !.stage = "no_rsi"], orders, t)
    ELSE
    \E account \in AccountReplies, d \in Delays :
    \* calculate_pos: None * leverage raises, as does requests
    IF account.kind # "ok" THEN Raises([e1 EXCEPT !.stage = "account"], orders, t + d)
    ELSE
    \E pr \in PositionReplies :
    LET position == CalculatePos(account.balance)
        open == IF pr.kind = "raise" THEN NoPosition
                ELSE GetOpenPositions(pr.positions, instrument)
        signal == Signal(rsi)
        units == SignedUnits(signal, position)
        e2 == [e1 EXCEPT !.evalTime = t + d,
                         !.queriesOk = (pr.kind # "keyerror"),
                         !.positionOpen = ReportsOpenPosition(pr, instrument)]
    IN
    IF pr.kind = "keyerror" THEN Raises([e2 EXCEPT !.stage = "positions"], orders, t + d)
    ELSE IF open # NoPosition
    THEN Returns([e2 EXCEPT !.stage = "position_open"], orders, t + d)
    ELSE IF ~ShouldTrade(t + d)
    THEN Returns([e2 EXCEPT !.stage = "outside_hours"], orders, t + d)
    ELSE IF signal = "none"
    THEN Returns([e2 EXCEPT !.stage = "no_signal"], orders, t + d)
    ELSE
    \* buy_order / sell_order -> place_order
    \E quote \in PriceReplies :
    IF quote.kind = "raise"
    THEN Raises([e2 EXCEPT !.stage = "price", !.signal = signal], orders, t + d)
    ELSE IF quote.kind = "none"
    THEN Returns([e2 EXCEPT !.stage = "no_price", !.signal = signal], orders, t + d)
    ELSE
    \E reply \in OrderReplies :
    LET request == OrderRequest(instrument, units, SlPips, TpPips, quote)
        sent == Append(orders, [request |-> request,
                                windowStart |-> acc.start_time,
                                signal |-> signal,
                                quote |-> quote,
                                balance |-> account.balance])
        e3 == [e2 EXCEPT !.stage = "order", !.signal = signal,
                         !.dispatched = TRUE, !.reply = reply]
    IN  IF reply = "raise" THEN Raises(e3, sent, t + d) ELSE Returns(e3, sent, t + d)

\* update_ohlc finds an accumulator (ohlc_data[instrument] raises KeyError
\* otherwise)
HasAccumulator(data, instrument) == instrument \in DOMAIN data

\* the body of the loop of stream_forex_data for a line read at time t:
\* decode, json.loads, then process_forex_data
ProcessLine(line, t) ==
    IF ~line.decodes THEN Crash(line, t)
    ELSE IF ~line.json \/ line.type # "PRICE" \/ Len(line.bids) = 0
    THEN Skip(line, t)
    ELSE IF ~HasAccumulator(ohlc_data, line.instrument)
    THEN DropTick(line, t)
    ELSE LET instrument == line.instrument
             bid_price == line.bids[1]
             data == [ohlc_data EXCEPT ![instrument] = UpdateOhlc(@, bid_price)]
             tc == [tick_count EXCEPT ![instrument] = @ + 1]
             wt == Append(winTicks, bid_price)
         IN  IF WindowElapsed(data[instrument], t)
             THEN CloseWindow(line, t, data, tc, wt)
             ELSE Commit(t, data, tc, ohlc_df, orders, accepted + 1, wt,
                         [NoEvent EXCEPT !.kind = "tick", !.line = line, !.time = t,
                                         !.ordersBefore = Len(orders)])

\* one iteration of the loop of stream_forex_data: a line arrives `gap` after
\* the last one was handled
StreamLine ==
    /\ pc = "streaming"
    /\ msgs < MaxMsgs
    /\ \E line \in Lines, gap \in Gaps : ProcessLine(line, now + gap)

\* variant: the handler prints its message and returns
SignalHandlerReturns(p) == p

\* signal_handler: sys.exit(0) raises SystemExit, which no `except Exception`
\* catches; where the process is after the handler ran at p
SignalHandler(p) == "exited"

\* where SIGINT can interrupt process_forex_data: after update_ohlc, or after
\* the row was appended to ohlc_df
SigintPoints == {"update", "append"}

\* SIGINT while the process waits for the streaming request or the next line
Sigint ==
    /\ pc \in {"start", "streaming"}
    /\ pc' = SignalHandler(pc)
    /\ ev' = [NoEvent EXCEPT !.kind = "sigint", !.time = now,
                             !.ordersBefore = Len(orders)]
    /\ UNCHANGED <<now, ohlc_data, tick_count, ohlc_df, orders, accepted, winTicks, msgs>>

\* SIGINT while process_forex_data handles a PRICE line
SigintInLine ==
    /\ pc = "streaming"
    /\ msgs < MaxMsgs
    /\ \E line \in Lines, gap \in Gaps, point \in SigintPoints :
         /\ line.decodes /\ line.json /\ line.type = "PRICE" /\ Len(line.bids) > 0
         /\ HasAccumulator(ohlc_data, line.instrument)
         /\ LET t == now + gap
                instrument == line.instrument
                data == [ohlc_data EXCEPT ![instrument] = UpdateOhlc(@, line.bids[1])]
                tc == [tick_count EXCEPT ![instrument] = @ + 1]
                df == IF point = "append"
                      THEN AppendRow(ohlc_df, NewRow(data[instrument]))
                      ELSE ohlc_df
            IN  /\ point = "append" => WindowElapsed(data[instrument], t)
                /\ CommitAt(SignalHandler(pc), t, data, tc, df, orders, accepted + 1,
                            Append(winTicks, line.bids[1]),
                            [NoEvent EXCEPT !.kind = "sigint", !.line = line,
                                            !.time = t, !.ordersBefore = Len(orders)])

\* the feed ends: iter_lines raises a RequestException (caught on line 138) or
\* runs out of lines; stream_forex_data returns and main returns after it
Disconnect ==
    /\ pc = "streaming"
    /\ pc' = "done"
    /\ ev' = [NoEvent EXCEPT !.kind = "disconnect", !.time = now,
                             !.ordersBefore = Len(orders)]
    /\ UNCHANGED <<now, ohlc_data, tick_count, ohlc_df, orders, accepted, winTicks, msgs>>

Next == Connect \/ StreamLine \/ SigintInLine \/ Sigint \/ Disconnect

Spec == Init /\ [][Next]_vars

----------------------------------------------------------------------------
(* The end-to-end run: the process is started and the feed sends BidCount   *)
(* bids for EUR_USD, one per second, each BidStep above the one before      *)

BidCount == 61
BidStep == 10

\* time between the connection and the first bid: none (the feed sends its
\* first line at once) or a second
FirstBidDelays == {0, Res}

\* the process starts on a Wednesday at 12:00:00, or a fraction of a second later
InitE2E ==
    /\ pc = "start"
    /\ now \in {Clock(2, 12, 0, 0) + f : f \in 0..(Res - 1)}
    /\ ohlc_data = [i \in {} |-> 0]
    /\ tick_count = [i \in {} |-> 0]
    /\ ohlc_df = <<>>
    /\ orders = <<>>
    /\ accepted = 0
    /\ winTicks = <<>>
    /\ ev = NoEvent
    /\ msgs = 0

\* the loop of stream_forex_data reads the next bid of the run
FeedBid ==
    /\ pc = "streaming"
    /\ msgs < BidCount
    /\ \E gap \in IF msgs = 0 THEN FirstBidDelays ELSE {ev.time + Res - now} :
         ProcessLine(PriceLine(Registered, Mid + msgs * BidStep), now + gap)

NextE2E == Connect \/ FeedBid

SpecE2E == InitE2E /\ [][NextE2E]_vars

----------------------------------------------------------------------------
(* Properties *)

Closed == ev.kind = "close"

RECURSIVE SumVolumes(_)
SumVolumes(df) == IF df = <<>> THEN 0 ELSE Head(df).volume + SumVolumes(Tail(df))

LastOrder == orders[Len(orders)]

\* Monday to Friday, 06:00:00 to 22:00:00 local time, both ends included
InTradingWindow(t) ==
    LET day == (t \div (86400 * Res)) % 7
        tod == t % (86400 * Res)
    IN  /\ day \in 0..4
        /\ 6 * 3600 * Res <= tod
        /\ tod <= 22 * 3600 * Res

\* the evaluation got its answers (a balance, and a position reply it could
\* read), saw no open position and ran inside the trading window
ReachedThresholds ==
    /\ Closed
    /\ ev.queriesOk
    /\ ~ev.positionOpen
    /\ InTradingWindow(ev.evalTime)

\* the order dispatch of the window close failed: no price, a status other than
\* 201, or a collaborator call of place_order raising
DispatchFailed ==
    /\ Closed
    /\ ev.signal # "none"
    /\ \/ ev.stage \in {"price", "no_price"}
       \/ ev.dispatched /\ ev.reply \in {"rejected", "raise"}

\* C1: no two order dispatches are made for the same instrument and the same
\* windowStart
C1_OneDispatchPerWindow ==
    \A i, j \in 1..Len(orders) :
        i # j => \/ orders[i].request.instrument # orders[j].request.instrument
                 \/ orders[i].windowStart # orders[j].windowStart

\* C2: the volumes of all bars plus the accumulator's tick count equal the
\* number of ticks update_ohlc accepted (each tick is counted in exactly one bar)
C2_TicksCountedOnce ==
    (pc = "streaming" /\ Registered \in DOMAIN ohlc_data) =>
        SumVolumes(ohlc_df) + ohlc_data[Registered].volume = accepted

\* C3: the bar finalized at a window close has open = the first tick's price,
\* high = the maximum of the window's prices, low = their minimum, close = the
\* last tick's price and volume = the number of ticks
C3_BarAggregatesWindow ==
    Closed =>
        LET ticks == ev.ticks
            seen == {ticks[k] : k \in 1..Len(ticks)}
        IN  /\ ev.row.o = ticks[1]
            /\ ev.row.h \in seen /\ \A p \in seen : ~FloatLt(ev.row.h, p)
            /\ ev.row.l \in seen /\ \A p \in seen : ~FloatLt(p, ev.row.l)
            /\ ev.row.c = ticks[Len(ticks)]
            /\ ev.row.volume = Len(ticks)

\* C4: at a window close where the position query reports an open position for
\* the instrument, no signal is emitted and no order is dispatched
C4_NoSignalWithOpenPosition ==
    (Closed /\ ev.positionOpen) =>
        /\ ev.signal = "none"
        /\ ~ev.dispatched
        /\ Len(orders) = ev.ordersBefore
C4_Witness ==
    /\ Closed /\ ev.positionOpen /\ ev.stage = "position_open"
    /\ RsiLt(ev.rsi, 30)
    /\ InTradingWindow(ev.evalTime)
    /\ Len(orders) = ev.ordersBefore

C6_NoOrderBeforeFifteenBars == Len(ohlc_df) < RsiLength + 1 => orders = <<>>
C6_Witness ==
    /\ Closed /\ Len(ohlc_df) = RsiLength
    /\ ev.rsi.kind = "nan" /\ ev.stage = "no_signal"
    /\ ReachedThresholds
    /\ orders = <<>>

\* C7: with the RSI a number, no open position and the time inside the trading
\* window, a buy signal is emitted iff RSI < 30, a sell signal iff RSI > 70, and
\* for 30 <= RSI <= 70 no signal is emitted and no order dispatched
C7_ThresholdsDecideSignal ==
    (ReachedThresholds /\ ev.rsi.kind = "num") =>
        /\ ev.signal = "buy" <=> RsiLt(ev.rsi, 30)
        /\ ev.signal = "sell" <=> RsiGt(ev.rsi, 70)
        /\ (~RsiLt(ev.rsi, 30) /\ ~RsiGt(ev.rsi, 70)) =>
              (ev.signal = "none" /\ ~ev.dispatched /\ Len(orders) = ev.ordersBefore)
C7_Witness ==
    /\ ReachedThresholds
    /\ RsiEq(ev.rsi, 30)
    /\ ev.signal = "none" /\ ev.stage = "no_signal"
    /\ Len(orders) = ev.ordersBefore

\* the bar series is 15 closes falling by one constant step
FifteenFalling ==
    /\ Len(ohlc_df) = 15
    /\ \A k \in 1..15 : IsNumber(ohlc_df[k].c)
    /\ ohlc_df[1].c > ohlc_df[2].c
    /\ \A k \in 1..14 : ohlc_df[k].c - ohlc_df[k + 1].c = ohlc_df[1].c - ohlc_df[2].c

\* C8 as stated: at the close that makes the bar series 15 closes falling by a
\* constant step, the RSI is 0 and (no open position, inside trading hours) a
\* sell is emitted, its order carrying negative units
C8_FallingClosesSell ==
    (ReachedThresholds /\ FifteenFalling) =>
        /\ RsiEq(ev.rsi, 0)
        /\ ev.signal = "sell"
        /\ ev.dispatched => LastOrder.request.units < 0

\* C8 amended: at that close the RSI is 0 and a buy is emitted; the order it
\* dispatches carries the position size itself, positive for a positive balance
C8_FallingClosesBuy ==
    (ReachedThresholds /\ FifteenFalling) =>
        /\ RsiEq(ev.rsi, 0)
        /\ ev.signal = "buy"
        /\ ev.dispatched =>
              /\ LastOrder.signal = "buy"
              /\ LastOrder.balance > 0 => LastOrder.request.units > 0
              /\ LastOrder.balance < 0 => LastOrder.request.units < 0
C8_Witness ==
    /\ ReachedThresholds /\ FifteenFalling
    /\ RsiEq(ev.rsi, 0)
    /\ ev.dispatched /\ ev.reply = "201"
    /\ LastOrder.signal = "buy" /\ LastOrder.request.units > 0

\* C9: after a window close whose order dispatch failed, the accumulator has
\* been reset with a new, later windowStart
C9_FailedDispatchStillResets ==
    (DispatchFailed /\ Registered \in DOMAIN ohlc_data) =>
        /\ ev.reset
        /\ ohlc_data[Registered].volume = 0
        /\ ohlc_data[Registered].start_time > ev.windowStart

\* C10: the bar series is in strict chronological order: each bar's start_time
\* is greater than that of the bar before it
C10_BarsStrictlyChronological ==
    \A k \in 1..(Len(ohlc_df) - 1) : ohlc_df[k].start_time < ohlc_df[k + 1].start_time

\* the price of a tick is not a finite positive number
InvalidPrice(p) == ~IsNumber(p) \/ p = PosInf \/ p = NegInf \/ p <= 0

\* the line is a PRICE message carrying a bid
CarriesBid(line) ==
    line.decodes /\ line.json /\ line.type = "PRICE" /\ Len(line.bids) > 0

\* C11: a PRICE line whose bid is not a finite positive number leaves the
\* accumulators (open, high, low, close, tick count, windowStart) and the bar
\* series unchanged, and the loop goes on
C11_InvalidTickDropped ==
    [][(/\ msgs' = msgs + 1
        /\ CarriesBid(ev'.line)
        /\ ev'.line.instrument \in DOMAIN ohlc_data
        /\ InvalidPrice(ev'.line.bids[1]))
       => (UNCHANGED <<ohlc_data, tick_count, ohlc_df>> /\ pc' = pc)]_vars

\* C12: a line that is not JSON, is not a PRICE message, or is a PRICE message
\* without bids leaves the accumulators and the bar series unchanged, sends no
\* order, and the loop goes on to the next line
C12_UnusableLineSkipped ==
    [][(/\ msgs' = msgs + 1
        /\ \/ ~ev'.line.decodes \/ ~ev'.line.json
           \/ ev'.line.type # "PRICE"
           \/ Len(ev'.line.bids) = 0)
       => (UNCHANGED <<ohlc_data, tick_count, ohlc_df, orders>> /\ pc' = pc)]_vars

\* C13: when a window closes with a single tick, i.e. no tick had been recorded
\* in it until the one that closed it, that tick arrived inside the window of
\* the bar it is aggregated into (windowStart was moved forward in between)
C13_SilentWindowAdvances ==
    (Closed /\ Len(ev.ticks) = 1) =>
        /\ Mktime(ev.row.start_time) <= ev.time
        /\ ev.time < Mktime(ev.row.start_time) + 60 * Res

\* C14: in the end-to-end run the bar of the first window close has open and
\* low equal to the first bid, close equal to high, and volume 60; that close
\* finds no RSI, and no order is dispatched during the run
C14_SixtyOneBidsOneBar ==
    /\ (Closed /\ Len(ohlc_df) = 1) =>
          /\ ev.row.o = Mid /\ ev.row.l = Mid
          /\ ev.row.c = ev.row.h
          /\ ev.row.volume = 60
          /\ ev.rsi.kind = "None"
    /\ orders = <<>>

\* floor(balance * 15), the balance given in cents
FloorSize(balance) == (balance * 15) \div 100

\* C15: a buy order carries exactly floor(balance * leverage) units and a sell
\* order exactly the negation of that amount: the units of a buy are never
\* negative and those of a sell never positive
C15_UnitsDirectionSigned ==
    \A i \in 1..Len(orders) :
        /\ orders[i].signal = "buy" =>
              /\ orders[i].request.units = FloorSize(orders[i].balance)
              /\ orders[i].request.units >= 0
        /\ orders[i].signal = "sell" =>
              /\ orders[i].request.units = 0 - FloorSize(orders[i].balance)
              /\ orders[i].request.units <= 0

\* C16: once SIGINT was received the process has exited, and from then on no
\* bar is appended to the bar series and no order request is made
C16_NothingAfterSigint ==
    /\ [](ev.kind = "sigint" => pc = "exited")
    /\ [][pc = "exited" => (ohlc_df' = ohlc_df /\ orders' = orders)]_vars
C16_Witness ==
    /\ ev.kind = "sigint" /\ pc = "exited"
    /\ Registered \in DOMAIN ohlc_data
    /\ ohlc_data[Registered].volume > 0
    /\ \A k \in 1..Len(ohlc_df) :
          ohlc_df[k].start_time # ohlc_data[Registered].start_time

\* C17: after the feed disconnected (the streaming request failed, or the
\* stream ended) the process is back at the streaming request, i.e. it attempts
\* to reconnect
C17_ReconnectAfterDisconnect == ev.kind = "disconnect" => pc = "start"

\* a <= b as Python compares floats (false whenever NaN is involved)
FloatLe(a, b) == a # NaN /\ b # NaN /\ a <= b

\* C18: every bar has volume >= 1, low <= open <= high and low <= close <= high,
\* and an accumulator that has seen a tick has low <= high
C18_BarsWellFormed ==
    /\ \A k \in 1..Len(ohlc_df) :
          /\ ohlc_df[k].volume >= 1
          /\ FloatLe(ohlc_df[k].l, ohlc_df[k].o) /\ FloatLe(ohlc_df[k].o, ohlc_df[k].h)
          /\ FloatLe(ohlc_df[k].l, ohlc_df[k].c) /\ FloatLe(ohlc_df[k].c, ohlc_df[k].h)
    /\ \A i \in DOMAIN ohlc_data :
          ohlc_data[i].volume >= 1 => FloatLe(ohlc_data[i].l, ohlc_data[i].h)

\* C19: the order of a buy (sell) takes the ask (bid) of the price query as its
\* reference price, has stop-loss and take-profit 25 pips (0.0001 each for
\* EUR_USD) away from it, the stop-loss below and the take-profit above the
\* reference for a buy, the take-profit below and the stop-loss above for a sell
C19_StopsOnCorrectSides ==
    \A i \in 1..Len(orders) :
        LET r == orders[i].request
            far == 25 * 10
        IN  orders[i].balance > 0 =>
              /\ orders[i].signal = "buy" =>
                    /\ r.price = orders[i].quote.ask
                    /\ r.stopLoss = r.price - far /\ r.takeProfit = r.price + far
              /\ orders[i].signal = "sell" =>
                    /\ r.price = orders[i].quote.bid
                    /\ r.takeProfit = r.price - far /\ r.stopLoss = r.price + far

\* C20: a PRICE line for an instrument that has no accumulator creates none,
\* leaves the accumulators and the bar series unchanged and sends no order, and
\* the loop goes on
C20_UnregisteredTickDropped ==
    [][(/\ msgs' = msgs + 1
        /\ CarriesBid(ev'.line)
        /\ ev'.line.instrument \notin DOMAIN ohlc_data)
       => (UNCHANGED <<ohlc_data, tick_count, ohlc_df, orders>> /\ pc' = pc)]_vars
C20_Witness ==
    /\ ev.kind = "skip" /\ CarriesBid(ev.line)
    /\ ev.line.instrument \notin DOMAIN ohlc_data
    /\ DOMAIN ohlc_data = {Registered}
    /\ pc = "streaming" /\ msgs = MaxMsgs

====
